---------------------------- MODULE Spec2Model ----------------------------
(***************************************************************************)
(* A model of pygmt's library locator (pygmt/clib/loading.py) and of the   *)
(* session-scoped wrappers x2sys_init, x2sys_cross (pygmt/x2sys.py) and    *)
(* contour (pygmt/src/contour.py).                                         *)
(*                                                                         *)
(* One behaviour is one call of one of the four functions; `prog` names    *)
(* the function and `pc` the place the call has reached.  Generators and   *)
(* `with` blocks are modelled step by step: one action per resumption of   *)
(* clib_full_names, per context entered and per context left, so that an   *)
(* exception travels through the same __exit__ / finally code as in        *)
(* Python.  `raised` is the chain of exceptions in flight (the last one is *)
(* the exception that propagates, the earlier ones are its __context__).   *)
(***************************************************************************)
EXTENDS Integers, Sequences, FiniteSets, TLC

VARIABLES
    prog,           \* the function called
    pc,             \* the place the call has reached
    raised,         \* chain of exceptions in flight (<<>>: none)
    returned,       \* the value returned (NoValue until the call returns)
    \* ---- the host: sys.platform, os.environ, the file system
    platform,       \* sys.platform
    env,            \* os.environ, a function from variable names to values
    files,          \* the paths that exist on disk
    \* ---- clib_full_names (generator frame)
    gpc,            \* where the generator is suspended
    gi,             \* index of the running `for libname in libnames`
    libnames,       \* clib_names(sys.platform)
    libpath,        \* env.get("GMT_LIBRARY_PATH", "")
    yields,         \* every candidate yielded so far, with the block that yielded it
    probes,         \* every path handed to os.path.exists
    tcOutcome,      \* outcome of `gmt --show-library` ("none": not invoked)
    findlib,        \* every name handed to find_library
    \* ---- load_libgmt (frame)
    lib_fullnames,  \* candidates attempted, in order
    error,          \* True, False or the last OSError
    libgmt,         \* the ctypes.CDLL handle of the last successful load
    checked,        \* what the last call of check_libgmt did (NotChecked: no call yet)
    \* ---- Session and its callers
    session,        \* "unopened", "open" or "closed"
    opens,          \* number of native create-session calls that succeeded
    closes,         \* number of native destroy-session calls
    registry,       \* virtual files currently registered with the session
    calls,          \* every call_module made: module, args, session and registry then
    inp,            \* the arguments of the call (tracks, outfile, kind, ...)
    ctx,            \* file_contexts / file_context: the contexts built so far
    stack,          \* contexts entered and not yet left (innermost last)
    fnames,         \* names the entered contexts handed back
    idx,            \* index of the running loop over tracks / contexts
    tmpfile,        \* name of the GMTTempFile ("" outside its block)
    outfile,        \* x2sys_cross's local `outfile`
    table,          \* x2sys_cross's local `table`
    log             \* events of the call, in order (writes, removals, reads, ...)

hostVars == <<platform, env, files>>
genVars  == <<gpc, gi, libnames, libpath, yields, probes, tcOutcome, findlib>>
loadVars == <<lib_fullnames, error, libgmt, checked>>
sessVars == <<session, opens, closes, registry, calls>>
callVars == <<inp, ctx, stack, fnames, idx, tmpfile, outfile, table, log>>
vars == <<prog, pc, raised, returned, hostVars, genVars, loadVars, sessVars, callVars>>

NoValue == [kind |-> "NoValue"]
None    == [kind |-> "None"]
Str(s)  == [kind |-> "str", val |-> s]

(***************************************************************************)
(* Exceptions.  An exception is a record; `kind` is its class.             *)
(***************************************************************************)
Exc(kind, info) == [kind |-> kind, info |-> info]

\* Python's built-in and standard-library exception classes used by the code,
\* each with its direct base class.
BuiltinBase ==
    [ OSError            |-> "Exception",
      FileNotFoundError  |-> "OSError",
      AssertionError     |-> "Exception",
      CalledProcessError |-> "SubprocessError",
      SubprocessError    |-> "Exception",
      NameError          |-> "Exception",
      KeyError           |-> "LookupError",
      LookupError        |-> "Exception",
      UnboundLocalError  |-> "NameError",
      ParserError        |-> "ValueError",
      ValueError         |-> "Exception",
      Exception          |-> "BaseException" ]

\* The classes of pygmt.exceptions, each with its direct base class.
PygmtBase ==
    [ GMTError             |-> "Exception",
      GMTOSError           |-> "GMTError",
      GMTCLibError         |-> "GMTError",
      GMTCLibNotFoundError |-> "GMTCLibError",
      GMTInvalidInput      |-> "GMTError" ]

ExcBase == BuiltinBase @@ PygmtBase

RECURSIVE IsSubclass(_, _)
IsSubclass(kind, cls) ==
    \/ kind = cls
    \/ /\ kind \in DOMAIN ExcBase
       /\ IsSubclass(ExcBase[kind], cls)

\* `except (c1, c2, ...)`: the clause handles an exception of class `kind`.
Catches(classes, kind) == \E c \in classes : IsSubclass(kind, c)

Last(s) == s[Len(s)]
Front(s) == SubSeq(s, 1, Len(s) - 1)
Range(s) == {s[i] : i \in DOMAIN s}

(***************************************************************************)
(* The host.                                                               *)
(***************************************************************************)
Platforms == {"linux", "linux2", "darwin", "darwin20", "win32", "freebsd13", "cygwin"}

LibDir == "/opt/gmt/lib"
ToolchainPath == "/usr/local/lib/libgmt.so.6"

\* str.startswith
StartsWith(s, prefix) ==
    /\ Len(s) >= Len(prefix)
    /\ SubSeq(s, 1, Len(prefix)) = prefix

\* os.path.join(libpath, libname) for a non-empty directory and a bare file name
PathJoin(dir, name) ==
    IF dir = "" THEN name
    ELSE IF SubSeq(dir, Len(dir), Len(dir)) = "/" THEN dir \o name
    ELSE dir \o "/" \o name

\* os.path.exists
PathExists(p) == p \in files

\* env.get(key, default)
EnvGet(e, key, default) == IF key \in DOMAIN e THEN e[key] ELSE default

Environments ==
    { <<>>,
      [GMT_LIBRARY_PATH |-> ""],
      [GMT_LIBRARY_PATH |-> LibDir] }

\* str.rstrip("\n") of the command's output, given as its lines' text and the
\* number of trailing newlines
RStripNewlines(out) == [out EXCEPT !.newlines = 0]
OutputText(out) == IF out.newlines = 0 THEN out.text ELSE out.text \o "\n"

(***************************************************************************)
(* The outcome of a call: it returns a value or raises an exception.       *)
(***************************************************************************)
Ret(v)   == [raises |-> FALSE, val |-> v]
Raise(e) == [raises |-> TRUE, exc |-> e]

(***************************************************************************)
(* clib_names                                                              *)
(***************************************************************************)
\* clib_names with a default file name in place of the final `raise`
clib_names_default(os_name) ==
    IF StartsWith(os_name, "linux") THEN Ret(<<"libgmt.so">>)
    ELSE IF os_name = "darwin" THEN Ret(<<"libgmt.dylib">>)
    ELSE IF os_name = "win32" THEN Ret(<<"gmt.dll", "gmt_w64.dll", "gmt_w32.dll">>)
    ELSE Ret(<<"libgmt.so">>)

\* clib_names comparing the Linux identifier for equality, not by prefix
clib_names_exact(os_name) ==
    IF os_name = "linux" THEN Ret(<<"libgmt.so">>)
    ELSE IF os_name = "darwin" THEN Ret(<<"libgmt.dylib">>)
    ELSE IF os_name = "win32" THEN Ret(<<"gmt.dll", "gmt_w64.dll", "gmt_w32.dll">>)
    ELSE IF StartsWith(os_name, "freebsd") THEN Ret(<<"libgmt.so">>)
    ELSE Raise(Exc("GMTOSError", os_name))

clib_names(os_name) ==
    IF StartsWith(os_name, "linux") THEN Ret(<<"libgmt.so">>)
    ELSE IF os_name = "darwin" THEN Ret(<<"libgmt.dylib">>)
    ELSE IF os_name = "win32" THEN Ret(<<"gmt.dll", "gmt_w64.dll", "gmt_w32.dll">>)
    ELSE IF StartsWith(os_name, "freebsd") THEN Ret(<<"libgmt.so">>)
    ELSE Raise(Exc("GMTOSError", os_name))

(***************************************************************************)
(* check_libgmt                                                            *)
(***************************************************************************)
\* the list of check_libgmt with "Get_Enum" left out
RequiredFunctionsShort == <<"Create_Session", "Call_Module", "Destroy_Session">>

RequiredFunctions == <<"Create_Session", "Get_Enum", "Call_Module", "Destroy_Session">>

\* Symbols a shared library may export.
Symbols ==
    {"GMT_Create_Session", "GMT_Get_Enum", "GMT_Call_Module", "GMT_Destroy_Session"}

\* hasattr(libgmt, name)
HasAttr(lib, name) == name \in lib.symbols

\* The functions of the list, in order, that the library lacks.
MissingFunctions(lib) ==
    SelectSeq(RequiredFunctions, LAMBDA func : ~HasAttr(lib, "GMT_" \o func))

\* check_libgmt(libgmt): <<>> when it returns, else the exception it raises
\* (for the first missing function of the list).
check_libgmt(lib) ==
    IF MissingFunctions(lib) = <<>> THEN <<>>
    ELSE <<Exc("GMTCLibError", "GMT_" \o MissingFunctions(lib)[1])>>

NoLib == [name |-> "", symbols |-> {}]
NotChecked == [called |-> FALSE, result |-> <<>>]
Libraries(name) == {[name |-> name, symbols |-> s] : s \in SUBSET Symbols}


(***************************************************************************)
(* clib_full_names: a generator.  Each action below is one stretch of its  *)
(* body; it runs only while load_libgmt is asking for the next candidate   *)
(* (pc = "for_next").  A yield hands the candidate to the loop body; an    *)
(* exception leaves the generator and, the `for` header being outside the  *)
(* try block, leaves load_libgmt too.                                      *)
(***************************************************************************)
FindLibraryDir == "C:/gmt/bin/"

\* the block that follows the toolchain query
AfterToolchain == IF platform = "win32" THEN "findlib" ELSE "bare"

\* the override loop without its os.path.exists test
OverrideYieldsAlways(p) == TRUE

\* `if os.path.exists(libfullpath): yield libfullpath`
OverrideYields(p) == PathExists(p)

\* The classes named by the except clause around the toolchain query.
ToolchainHandlerClasses == {"FileNotFoundError", "AssertionError"}

\* The classes named by the except clause of load_libgmt's loop body.
LoadHandlerClasses == {"OSError"}

Yield(p, src) ==
    /\ yields' = Append(yields, [path |-> p, src |-> src])
    /\ pc' = "body"

GenRaise(e) ==
    /\ raised' = <<e>>
    /\ pc' = "done"
    /\ gpc' = "end"

\* First resumption: env default, clib_names(sys.platform), env.get.
ClibFullNamesStart ==
    /\ prog = "load_libgmt" /\ pc = "for_next" /\ gpc = "start"
    /\ LET r == clib_names(platform) IN
       IF r.raises
       THEN /\ GenRaise(r.exc)
            /\ UNCHANGED <<libnames, libpath, gi>>
       ELSE /\ libnames' = r.val
            /\ libpath' = EnvGet(env, "GMT_LIBRARY_PATH", "")
            /\ gpc' = IF libpath' # "" THEN "override" ELSE "toolchain"
            /\ gi' = 1
            /\ UNCHANGED <<pc, raised>>
    /\ UNCHANGED <<prog, returned, hostVars, yields, probes, tcOutcome, findlib,
                   loadVars, sessVars, callVars>>

\* One iteration of the loop over the override directory.
ClibFullNamesOverride ==
    /\ prog = "load_libgmt" /\ pc = "for_next" /\ gpc = "override"
    /\ LET libfullpath == PathJoin(libpath, libnames[gi]) IN
       /\ probes' = probes \cup {libfullpath}
       /\ IF OverrideYields(libfullpath)
          THEN Yield(libfullpath, "override")
          ELSE UNCHANGED <<yields, pc>>
    /\ IF gi < Len(libnames)
       THEN gi' = gi + 1 /\ gpc' = gpc
       ELSE gi' = 1 /\ gpc' = "toolchain"
    /\ UNCHANGED <<prog, raised, returned, hostVars, libnames, libpath, tcOutcome,
                   findlib, loadVars, sessVars, callVars>>

\* What sp.check_output(["gmt", "--show-library"]) can do.
ToolchainResults ==
    { Raise(Exc("FileNotFoundError", "gmt")),
      Raise(Exc("CalledProcessError", "gmt")),
      Ret([text |-> ToolchainPath, newlines |-> 1]) }

\* The try block around the toolchain query.
ClibFullNamesToolchain ==
    /\ prog = "load_libgmt" /\ pc = "for_next" /\ gpc = "toolchain"
    /\ \E r \in ToolchainResults :
         LET libfullpath == OutputText(RStripNewlines(r.val))
             e == IF r.raises THEN r.exc
                  ELSE IF ~PathExists(libfullpath)
                       THEN Exc("AssertionError", libfullpath)
                       ELSE Exc("none", "")
         IN
         /\ tcOutcome' = IF r.raises
                         THEN (IF r.exc.kind = "FileNotFoundError"
                               THEN "notfound" ELSE "failed")
                         ELSE (IF PathExists(libfullpath) THEN "ok" ELSE "stale")
         /\ probes' = IF r.raises THEN probes ELSE probes \cup {libfullpath}
         /\ IF e.kind = "none"
            THEN /\ Yield(libfullpath, "toolchain")
                 /\ gpc' = AfterToolchain
                 /\ UNCHANGED raised
            ELSE IF Catches(ToolchainHandlerClasses, e.kind)
            THEN /\ gpc' = AfterToolchain
                 /\ UNCHANGED <<yields, pc, raised>>
            ELSE /\ GenRaise(e)
                 /\ UNCHANGED yields
    /\ gi' = 1
    /\ UNCHANGED <<prog, returned, hostVars, libnames, libpath, findlib,
                   loadVars, sessVars, callVars>>

\* One iteration of the Windows-only loop over find_library.
ClibFullNamesFindLibrary ==
    /\ prog = "load_libgmt" /\ pc = "for_next" /\ gpc = "findlib"
    /\ findlib' = findlib \cup {libnames[gi]}
    /\ \E found \in BOOLEAN :
         IF found
         THEN Yield(FindLibraryDir \o libnames[gi], "findlib")
         ELSE UNCHANGED <<yields, pc>>
    /\ IF gi < Len(libnames)
       THEN gi' = gi + 1 /\ gpc' = gpc
       ELSE gi' = 1 /\ gpc' = "bare"
    /\ UNCHANGED <<prog, raised, returned, hostVars, libnames, libpath, probes,
                   tcOutcome, loadVars, sessVars, callVars>>

\* One iteration of the last loop: the bare file names.
ClibFullNamesBare ==
    /\ prog = "load_libgmt" /\ pc = "for_next" /\ gpc = "bare"
    /\ Yield(libnames[gi], "bare")
    /\ IF gi < Len(libnames)
       THEN gi' = gi + 1 /\ gpc' = gpc
       ELSE gi' = 1 /\ gpc' = "end"
    /\ UNCHANGED <<prog, raised, returned, hostVars, libnames, libpath, probes,
                   tcOutcome, findlib, loadVars, sessVars, callVars>>

\* The generator is exhausted: the for loop ends.
ClibFullNamesEnd ==
    /\ prog = "load_libgmt" /\ pc = "for_next" /\ gpc = "end"
    /\ pc' = "after_loop"
    /\ UNCHANGED <<prog, raised, returned, hostVars, genVars, loadVars, sessVars,
                   callVars>>

(***************************************************************************)
(* load_libgmt                                                             *)
(***************************************************************************)
ErrTrue  == [kind |-> "True", info |-> ""]
ErrFalse == [kind |-> "False", info |-> ""]
Truthy(e) == e.kind # "False"

\* What ctypes.CDLL(libname) can do.
CDLLResults(libname) ==
    {Raise(Exc("OSError", libname))} \cup {Ret(l) : l \in Libraries(libname)}

\* the loop body without its `break`: after a successful load the loop goes on
LoadAttemptNoBreak ==
    /\ prog = "load_libgmt" /\ pc = "body"
    /\ LET libname == Last(yields).path IN
       /\ lib_fullnames' = Append(lib_fullnames, libname)
       /\ \E r \in CDLLResults(libname) :
            LET chk == IF r.raises THEN <<r.exc>> ELSE check_libgmt(r.val) IN
            /\ libgmt' = IF r.raises THEN libgmt ELSE r.val
            /\ checked' = IF r.raises THEN checked ELSE [called |-> TRUE, result |-> chk]
            /\ IF chk = <<>>
               THEN /\ error' = ErrFalse
                    /\ pc' = "for_next"
                    /\ UNCHANGED raised
               ELSE IF Catches(LoadHandlerClasses, chk[1].kind)
               THEN /\ error' = chk[1]
                    /\ pc' = "for_next"
                    /\ UNCHANGED raised
               ELSE /\ raised' = chk
                    /\ pc' = "done"
                    /\ UNCHANGED error
    /\ UNCHANGED <<prog, returned, hostVars, genVars, sessVars, callVars>>

\* The loop body: append, then try: CDLL, check_libgmt, break.
LoadAttempt ==
    /\ prog = "load_libgmt" /\ pc = "body"
    /\ LET libname == Last(yields).path IN
       /\ lib_fullnames' = Append(lib_fullnames, libname)
       /\ \E r \in CDLLResults(libname) :
            LET chk == IF r.raises THEN <<r.exc>> ELSE check_libgmt(r.val) IN
            /\ libgmt' = IF r.raises THEN libgmt ELSE r.val
            /\ checked' = IF r.raises THEN checked ELSE [called |-> TRUE, result |-> chk]
            /\ IF chk = <<>>
               THEN /\ error' = ErrFalse
                    /\ pc' = "after_loop"
                    /\ UNCHANGED raised
               ELSE IF Catches(LoadHandlerClasses, chk[1].kind)
               THEN /\ error' = chk[1]
                    /\ pc' = "for_next"
                    /\ UNCHANGED raised
               ELSE /\ raised' = chk
                    /\ pc' = "done"
                    /\ UNCHANGED error
    /\ UNCHANGED <<prog, returned, hostVars, genVars, sessVars, callVars>>

\* After the loop: raise GMTCLibNotFoundError or return the handle.
LoadFinish ==
    /\ prog = "load_libgmt" /\ pc = "after_loop"
    /\ pc' = "done"
    /\ IF Truthy(error)
       THEN /\ raised' = <<Exc("GMTCLibNotFoundError",
                              [names |-> lib_fullnames, error |-> error])>>
            /\ UNCHANGED returned
       ELSE /\ returned' = libgmt
            /\ UNCHANGED raised
    /\ UNCHANGED <<prog, hostVars, genVars, loadVars, sessVars, callVars>>

LoadNext ==
    \/ ClibFullNamesStart
    \/ ClibFullNamesOverride
    \/ ClibFullNamesToolchain
    \/ ClibFullNamesFindLibrary
    \/ ClibFullNamesBare
    \/ ClibFullNamesEnd
    \/ LoadAttempt
    \/ LoadFinish

(***************************************************************************)
(* Session (pygmt.clib.Session), used as `with Session() as lib`.          *)
(***************************************************************************)
\* Session.__enter__: the native create-session call succeeds or fails.
SessionEnter(next_pc) ==
    \E ok \in BOOLEAN :
      IF ok
      THEN /\ session' = "open"
           /\ opens' = opens + 1
           /\ pc' = next_pc
           /\ UNCHANGED raised
      ELSE /\ raised' = <<Exc("GMTCLibError", "create")>>
           /\ pc' = "done"
           /\ UNCHANGED <<session, opens>>

\* Session.__exit__: the native destroy-session call; the pending exception,
\* if any, goes on to the caller.
SessionExit ==
    /\ session' = "closed"
    /\ closes' = closes + 1
    /\ pc' = "done"

\* lib.call_module(module, args): the call is made; it returns or raises.
CallModule(module, args, ok) ==
    /\ calls' = Append(calls, [module |-> module, args |-> args,
                               session |-> session, registry |-> registry])
    /\ raised' = IF ok THEN raised ELSE Append(raised, Exc("GMTCLibError", module))

\* data_kind of one input
data_kind(d) == d.kind

\* dummy_context(arg): a context that hands `arg` back and does nothing else
DummyContext(arg) == [type |-> "dummy", data |-> arg]

\* The characters of the modelled strings, in the order of ord()
Alphabet == " '-./0123456789>ABCDEFGHIJKLMNOPQRSTUVWXYZ[]_abcdefghijklmnopqrstuvwxyz"

\* the rank of a character in the order of ord()
Ord(c) == CHOOSE i \in 1..Len(Alphabet) : SubSeq(Alphabet, i, i) = c

\* a < b for Python strings
RECURSIVE StrLess(_, _)
StrLess(a, b) ==
    IF b = "" THEN FALSE
    ELSE IF a = "" THEN TRUE
    ELSE LET ca == SubSeq(a, 1, 1)
             cb == SubSeq(b, 1, 1)
         IN IF ca = cb
            THEN StrLess(SubSeq(a, 2, Len(a)), SubSeq(b, 2, Len(b)))
            ELSE Ord(ca) < Ord(cb)

\* sorted(list of strings)
RECURSIVE Insert(_, _)
Insert(x, s) ==
    IF s = <<>> THEN <<x>>
    ELSE IF StrLess(x, s[1]) THEN <<x>> \o s
    ELSE <<s[1]>> \o Insert(x, Tail(s))

RECURSIVE Sorted(_)
Sorted(s) == IF s = <<>> THEN <<>> ELSE Insert(s[1], Sorted(Tail(s)))

\* a list value of a keyword argument
List(l) == [kind |-> "list", val |-> l]

\* sep.join(strs)
RECURSIVE Join(_, _)
Join(strs, sep) ==
    IF strs = <<>> THEN ""
    ELSE IF Len(strs) = 1 THEN strs[1]
    ELSE strs[1] \o sep \o Join(Tail(strs), sep)

\* the elements of a set of keys, as a list in some order
RECURSIVE SeqOf(_)
SeqOf(S) ==
    IF S = {} THEN <<>>
    ELSE LET x == CHOOSE x \in S : TRUE IN <<x>> \o SeqOf(S \ {x})

\* @use_alias(**aliases): every keyword given under its long name is handed
\* on under the flag letter the table maps to it; other keywords are kept.
use_alias(aliases, kwargs) ==
    LET long  == {aliases[a] : a \in DOMAIN aliases}
        given == {a \in DOMAIN aliases : aliases[a] \in DOMAIN kwargs}
    IN [k \in (DOMAIN kwargs \ long) \cup given |->
            IF k \in given THEN kwargs[aliases[k]] ELSE kwargs[k]]

\* the separator of a conversion of @kwargs_to_strings
Separator(fmt) ==
    CASE fmt = "sequence"       -> "/"
      [] fmt = "sequence_comma" -> ","
      [] fmt = "sequence_space" -> " "

\* @kwargs_to_strings(**conversions): a list given for a converted argument
\* becomes one string, its items joined by the conversion's separator.
kwargs_to_strings(conversions, kwargs) ==
    [k \in DOMAIN kwargs |->
        IF k \in DOMAIN conversions /\ kwargs[k].kind = "list"
        THEN Str(Join(kwargs[k].val, Separator(conversions[k])))
        ELSE kwargs[k]]

\* "{}".format(value): a string as it is, a list of strings as Python writes it
Format(value) ==
    IF value.kind = "str" THEN value.val
    ELSE IF value.val = <<>> THEN "[]"
    ELSE "['" \o Join(value.val, "', '") \o "']"

\* build_arg_string(kwargs): "-{key}{value}" for every key in sorted order,
\* joined by single spaces
build_arg_string(kwargs) ==
    LET keys == Sorted(SeqOf(DOMAIN kwargs))
    IN Join([i \in DOMAIN keys |-> "-" \o keys[i] \o Format(kwargs[keys[i]])], " ")

(***************************************************************************)
(* x2sys_init                                                              *)
(***************************************************************************)
\* the alias table x2sys_init is decorated with, with its two entries for
\* spacing and discontinuity exchanged
X2sysInitAliasesSwapped ==
    [D |-> "fmtfile", E |-> "suffix", F |-> "force", G |-> "spacing",
     I |-> "discontinuity", N |-> "units", R |-> "region", V |-> "verbose",
     W |-> "gap", j |-> "distcalc"]

\* @use_alias(...) of x2sys_init
X2sysInitAliases ==
    [D |-> "fmtfile", E |-> "suffix", F |-> "force", G |-> "discontinuity",
     I |-> "spacing", N |-> "units", R |-> "region", V |-> "verbose",
     W |-> "gap", j |-> "distcalc"]

\* @kwargs_to_strings(I="sequence", R="sequence")
X2sysInitConversions == [I |-> "sequence", R |-> "sequence"]

\* kwargs as the body of x2sys_init receives them
X2sysInitKwargs(kwargs) ==
    kwargs_to_strings(X2sysInitConversions, use_alias(X2sysInitAliases, kwargs))

InitSessionEnter ==
    /\ prog = "x2sys_init" /\ pc = "session_enter"
    /\ SessionEnter("call")
    /\ UNCHANGED <<prog, returned, hostVars, genVars, loadVars, closes, registry,
                   calls, callVars>>

InitCall ==
    /\ prog = "x2sys_init" /\ pc = "call"
    /\ \E ok \in BOOLEAN :
         CallModule("x2sys_init",
                    Join(<<inp.tag, build_arg_string(X2sysInitKwargs(inp.kwargs))>>, " "),
                    ok)
    /\ pc' = "session_exit"
    /\ UNCHANGED <<prog, returned, hostVars, genVars, loadVars, session, opens,
                   closes, registry, callVars>>

InitSessionExit ==
    /\ prog = "x2sys_init" /\ pc = "session_exit"
    /\ SessionExit
    /\ returned' = IF raised = <<>> THEN None ELSE returned
    /\ UNCHANGED <<prog, raised, hostVars, genVars, loadVars, opens, registry,
                   calls, callVars>>

InitNext == InitSessionEnter \/ InitCall \/ InitSessionExit

(***************************************************************************)
(* tempfile_from_dftrack and the tag file                                  *)
(***************************************************************************)
\* The loop `for item in sorted(lastline.split())`: the value `suffix` holds
\* after it, given the value it held before ("" stands for an unbound name).
RECURSIVE SuffixLoop(_, _)
SuffixLoop(items, suffix) ==
    IF items = <<>> THEN suffix
    ELSE SuffixLoop(Tail(items),
                    IF StartsWith(items[1], "-E") \/ StartsWith(items[1], "-D")
                    THEN SubSeq(items[1], 3, Len(items[1]))
                    ELSE suffix)

\* the loop over the items in the order of the line, without sorted()
FindSuffixUnsorted(lastline) == SuffixLoop(lastline, "")

FindSuffix(lastline) == SuffixLoop(Sorted(lastline), "")

\* unique_name()[:7]
TruncatedName(u) == SubSeq(u, 1, 7)

\* f"track-{unique_name()[:7]}.{suffix}"
TmpFileName(u, suffix) == "track-" \o TruncatedName(u) \o "." \o suffix

\* What unique_name() may return: uuid4().hex values (two of them with the same
\* first seven characters).
UniqueNames == {"1a2b3c4d5e6f", "1a2b3c4f6e5d", "9f8e7d6c5b4a"}

\* What track.to_csv may do: write the file, fail before creating it, or fail
\* after creating it.
ToCsvOutcomes == {"ok", "fail_nofile", "fail_partial"}

\* os.remove(path) in the finally clause: the file is removed, or the call
\* raises FileNotFoundError.
OsRemove(path) ==
    IF path \in files
    THEN /\ files' = files \ {path}
         /\ log' = Append(log, <<"remove", path>>)
         /\ UNCHANGED raised
    ELSE /\ raised' = Append(raised, Exc("FileNotFoundError", path))
         /\ UNCHANGED <<files, log>>

\* tempfile_from_dftrack with the removal after the yield instead of in a
\* finally clause: an exception thrown into the generator skips it
TempfileExitNoFinally(c) ==
    IF raised = <<>> THEN OsRemove(c.data) ELSE UNCHANGED <<files, log, raised>>

\* Leaving tempfile_from_dftrack: `finally: os.remove(tmpfilename)`
TempfileExit(c) == OsRemove(c.data)

(***************************************************************************)
(* x2sys_cross                                                             *)
(***************************************************************************)
TmpOutName == "pygmt-0a1b2c3d.txt"

CrossSessionEnter ==
    /\ prog = "x2sys_cross" /\ pc = "session_enter"
    /\ SessionEnter("build")
    /\ UNCHANGED <<prog, returned, hostVars, genVars, loadVars, closes, registry,
                   calls, callVars>>

\* the file branch with the track copied to a temporary file like a table
FileTrackContextCopied(track) ==
    [type |-> "tempfile", data |-> track.data, suffix |-> "xyz"]

\* `if kind == "file": file_contexts.append(dummy_context(track))`
FileTrackContext(track) == DummyContext(track.data)

\* the loop without its final else branch: an unrecognized track is skipped
UnrecognizedTrackSkipped(track) == <<>>

\* `else: raise GMTInvalidInput(...)`: what the last branch raises
UnrecognizedTrack(track) == <<Exc("GMTInvalidInput", track.data)>>

\* The characters of a string, each a string of its own
Chars(str) == [i \in 1..Len(str) |-> SubSeq(str, i, i)]

\* What `for track in tracks` iterates over: the elements of a list, the
\* characters of a str, the column labels of a DataFrame (each character and
\* each label is a str, of kind "file").
IterTracks(args) ==
    IF args.form = "list" THEN args.tracks
    ELSE IF args.form = "str"
    THEN [i \in 1..Len(args.tracks.data) |->
             [kind |-> "file", data |-> Chars(args.tracks.data)[i]]]
    ELSE [i \in DOMAIN args.tracks.columns |->
             [kind |-> "file", data |-> args.tracks.columns[i]]]

\* One iteration of `for track in tracks` (or the end of the loop).
CrossBuild ==
    /\ prog = "x2sys_cross" /\ pc = "build"
    /\ IF idx > Len(IterTracks(inp))
       THEN /\ pc' = "tmpfile_enter"
            /\ idx' = 1
            /\ UNCHANGED <<ctx, raised>>
       ELSE LET track == IterTracks(inp)[idx]
                kind == data_kind(track)
                suffix == FindSuffix(inp.tagline)
            IN
            IF kind = "file"
            THEN /\ ctx' = Append(ctx, FileTrackContext(track))
                 /\ idx' = idx + 1
                 /\ UNCHANGED <<pc, raised>>
            ELSE IF kind = "matrix"
            THEN IF ~inp.x2sys_home \/ suffix = ""
                 THEN /\ raised' = IF ~inp.x2sys_home
                                   THEN <<Exc("KeyError", "X2SYS_HOME")>>
                                   ELSE <<Exc("UnboundLocalError", "suffix")>>
                      /\ pc' = "session_exit"
                      /\ UNCHANGED <<ctx, idx>>
                 ELSE /\ ctx' = Append(ctx, [type |-> "tempfile", data |-> track.data,
                                             suffix |-> suffix])
                      /\ idx' = idx + 1
                      /\ UNCHANGED <<pc, raised>>
            ELSE IF UnrecognizedTrack(track) = <<>>
            THEN /\ idx' = idx + 1
                 /\ UNCHANGED <<ctx, pc, raised>>
            ELSE /\ raised' = UnrecognizedTrack(track)
                 /\ pc' = "session_exit"
                 /\ UNCHANGED <<ctx, idx>>
    /\ UNCHANGED <<prog, returned, hostVars, genVars, loadVars, sessVars, inp, stack,
                   fnames, tmpfile, outfile, table, log>>

\* GMTTempFile(suffix=".txt").__enter__: the temporary output file is created.
CrossTmpfileEnter ==
    /\ prog = "x2sys_cross" /\ pc = "tmpfile_enter"
    /\ tmpfile' = TmpOutName
    /\ files' = files \cup {TmpOutName}
    /\ pc' = "ctx_enter"
    /\ UNCHANGED <<prog, raised, returned, platform, env, genVars, loadVars, sessVars,
                   inp, ctx, stack, fnames, idx, outfile, table, log>>

\* One stack.enter_context(c) of the list comprehension (or its end).
\* The values unique_name() has returned to the track contexts entered so
\* far; it returns a different value at every call.
UsedNames == {stack[i].uid : i \in {j \in DOMAIN stack : stack[j].type = "tempfile"}}

\* `fnames = [stack.enter_context(c) for c in file_contexts]`: one context is
\* entered; for a table, tempfile_from_dftrack runs up to its yield.
CrossCtxEnter ==
    /\ prog = "x2sys_cross" /\ pc = "ctx_enter"
    /\ IF idx > Len(ctx)
       THEN /\ pc' = "call"
            /\ UNCHANGED <<stack, fnames, idx, files, log, raised>>
       ELSE LET c == ctx[idx] IN
            IF c.type = "dummy"
            THEN /\ stack' = Append(stack, c)
                 /\ fnames' = Append(fnames, c.data)
                 /\ idx' = idx + 1
                 /\ UNCHANGED <<pc, files, log, raised>>
            ELSE \E u \in UniqueNames \ UsedNames, csv \in ToCsvOutcomes :
                   LET tmpfilename == TmpFileName(u, c.suffix) IN
                   IF csv = "ok"
                   THEN /\ files' = files \cup {tmpfilename}
                        /\ log' = Append(log, <<"write", tmpfilename>>)
                        /\ stack' = Append(stack, [type |-> c.type, data |-> tmpfilename,
                                                    suffix |-> c.suffix, uid |-> u])
                        /\ fnames' = Append(fnames, tmpfilename)
                        /\ idx' = idx + 1
                        /\ UNCHANGED <<pc, raised>>
                   ELSE \* to_csv raises; the finally clause removes the file
                        /\ IF csv = "fail_partial" \/ tmpfilename \in files
                           THEN /\ files' = files \ {tmpfilename}
                                /\ log' = IF csv = "fail_partial"
                                          THEN log \o << <<"write", tmpfilename>>,
                                                         <<"remove", tmpfilename>> >>
                                          ELSE Append(log, <<"remove", tmpfilename>>)
                                /\ raised' = <<Exc("OSError", "to_csv")>>
                           ELSE /\ raised' = <<Exc("OSError", "to_csv"),
                                               Exc("FileNotFoundError", tmpfilename)>>
                                /\ UNCHANGED <<files, log>>
                        /\ pc' = "ctx_exit"
                        /\ UNCHANGED <<stack, fnames, idx>>
    /\ UNCHANGED <<prog, returned, platform, env, genVars, loadVars, sessVars, inp,
                   ctx, tmpfile, outfile, table>>

\* @use_alias(...) of x2sys_cross
X2sysCrossAliases ==
    [A |-> "combitable", C |-> "runtimes", D |-> "override", I |-> "interpolation",
     R |-> "region", S |-> "speed", T |-> "tag", Q |-> "coe", V |-> "verbose",
     W |-> "numpoints", Z |-> "trackvalues"]

\* @kwargs_to_strings(R="sequence")
X2sysCrossConversions == [R |-> "sequence"]

\* kwargs as the body of x2sys_cross receives them
X2sysCrossKwargs(kwargs) ==
    kwargs_to_strings(X2sysCrossConversions, use_alias(X2sysCrossAliases, kwargs))

\* the output always redirected to the temporary file, whatever outfile is
EffectiveOutfileAlwaysTmp == Str(tmpfile)

\* `if outfile is None: outfile = tmpfile.name`
EffectiveOutfile == IF outfile = None THEN Str(tmpfile) ELSE outfile

\* the module call with its error swallowed (`try: ... except GMTCLibError: pass`)
CrossCallSwallowed ==
    /\ prog = "x2sys_cross" /\ pc = "call"
    /\ outfile' = EffectiveOutfile
    /\ \E ok \in BOOLEAN :
         /\ calls' = Append(calls, [module |-> "x2sys_cross",
                                    args |-> Join(fnames \o
                                                  <<build_arg_string(X2sysCrossKwargs(inp.kwargs)),
                                                    "->" \o outfile'.val>>, " "),
                                    session |-> session, registry |-> registry])
         /\ files' = IF ok THEN files \cup {outfile'.val} ELSE files
         /\ log' = Append(log, <<IF ok THEN "call_ok" ELSE "call_failed", outfile'.val>>)
    /\ pc' = "ctx_exit"
    /\ UNCHANGED <<prog, raised, returned, platform, env, genVars, loadVars, session,
                   opens, closes, registry, inp, ctx, stack, fnames, idx, tmpfile, table>>

\* arg_str and lib.call_module(module="x2sys_cross", args=arg_str)
CrossCall ==
    /\ prog = "x2sys_cross" /\ pc = "call"
    /\ outfile' = EffectiveOutfile
    /\ \E ok \in BOOLEAN :
         /\ CallModule("x2sys_cross",
                       Join(fnames \o <<build_arg_string(X2sysCrossKwargs(inp.kwargs)),
                                        "->" \o outfile'.val>>, " "),
                       ok)
         /\ files' = IF ok THEN files \cup {outfile'.val} ELSE files
         /\ log' = Append(log, <<IF ok THEN "call_ok" ELSE "call_failed", outfile'.val>>)
    /\ pc' = "ctx_exit"
    /\ UNCHANGED <<prog, returned, platform, env, genVars, loadVars, session, opens,
                   closes, registry, inp, ctx, stack, fnames, idx, tmpfile, table>>

\* ExitStack.__exit__: the entered contexts are left, innermost first.
CrossCtxExit ==
    /\ prog = "x2sys_cross" /\ pc = "ctx_exit"
    /\ IF stack = <<>>
       THEN /\ pc' = IF raised = <<>> THEN "read" ELSE "tmpfile_exit"
            /\ UNCHANGED <<stack, files, log, raised>>
       ELSE /\ stack' = Front(stack)
            /\ IF Last(stack).type = "dummy"
               THEN UNCHANGED <<files, log, raised>>
               ELSE TempfileExit(Last(stack))
            /\ UNCHANGED pc
    /\ UNCHANGED <<prog, returned, platform, env, genVars, loadVars, sessVars, inp,
                   ctx, fnames, idx, tmpfile, outfile, table>>

\* The statements after the ExitStack block: read the output or set None.
CrossRead ==
    /\ prog = "x2sys_cross" /\ pc = "read"
    /\ IF outfile = Str(tmpfile)
       THEN \E ok \in BOOLEAN :
              /\ log' = Append(log, <<"read", tmpfile>>)
              /\ IF ok
                 THEN table' = [kind |-> "DataFrame"] /\ UNCHANGED raised
                 ELSE raised' = <<Exc("ParserError", tmpfile)>> /\ UNCHANGED table
       ELSE /\ table' = None
            /\ UNCHANGED <<log, raised>>
    /\ pc' = "tmpfile_exit"
    /\ UNCHANGED <<prog, returned, hostVars, genVars, loadVars, sessVars, inp, ctx,
                   stack, fnames, idx, tmpfile, outfile>>

\* GMTTempFile.__exit__: the temporary output file is removed if it exists.
CrossTmpfileExit ==
    /\ prog = "x2sys_cross" /\ pc = "tmpfile_exit"
    /\ files' = files \ {tmpfile}
    /\ log' = IF tmpfile \in files THEN Append(log, <<"remove", tmpfile>>) ELSE log
    /\ pc' = "session_exit"
    /\ UNCHANGED <<prog, raised, returned, platform, env, genVars, loadVars, sessVars,
                   inp, ctx, stack, fnames, idx, tmpfile, outfile, table>>

\* x2sys_cross with `lib = Session()` closed by hand at the end of the body
\* instead of by a with block: an exception skips the close
CrossSessionExitNoWith ==
    /\ prog = "x2sys_cross" /\ pc = "session_exit"
    /\ IF raised = <<>>
       THEN SessionExit
       ELSE pc' = "done" /\ UNCHANGED <<session, closes>>
    /\ returned' = IF raised = <<>> THEN table ELSE returned
    /\ UNCHANGED <<prog, raised, hostVars, genVars, loadVars, opens, registry,
                   calls, callVars>>

\* Session.__exit__, then `return table` or the pending exception.
CrossSessionExit ==
    /\ prog = "x2sys_cross" /\ pc = "session_exit"
    /\ SessionExit
    /\ returned' = IF raised = <<>> THEN table ELSE returned
    /\ UNCHANGED <<prog, raised, hostVars, genVars, loadVars, opens, registry,
                   calls, callVars>>

CrossNext ==
    \/ CrossSessionEnter
    \/ CrossBuild
    \/ CrossTmpfileEnter
    \/ CrossCtxEnter
    \/ CrossCall
    \/ CrossCtxExit
    \/ CrossRead
    \/ CrossTmpfileExit
    \/ CrossSessionExit

(***************************************************************************)
(* contour                                                                 *)
(***************************************************************************)
VirtualFileName == "@GMTAPI@-S-I-D-M-T-N-000000"

\* contour without its check on z
ContourPreNoCheck ==
    /\ prog = "contour" /\ pc = "pre"
    /\ pc' = "session_enter"
    /\ UNCHANGED <<prog, raised, returned, hostVars, genVars, loadVars, sessVars, callVars>>

\* kind = data_kind(data, x, y, z) and the check on z
ContourPre ==
    /\ prog = "contour" /\ pc = "pre"
    /\ IF data_kind(inp) = "vectors" /\ inp.z = None
       THEN /\ raised' = <<Exc("GMTInvalidInput", "z")>>
            /\ pc' = "done"
       ELSE /\ pc' = "session_enter"
            /\ UNCHANGED raised
    /\ UNCHANGED <<prog, returned, hostVars, genVars, loadVars, sessVars, callVars>>

ContourSessionEnter ==
    /\ prog = "contour" /\ pc = "session_enter"
    /\ SessionEnter("build")
    /\ UNCHANGED <<prog, returned, hostVars, genVars, loadVars, closes, registry,
                   calls, callVars>>

\* The if / elif chain that binds file_context (no branch: it stays unbound).
ContourBuild ==
    /\ prog = "contour" /\ pc = "build"
    /\ LET kind == data_kind(inp) IN
       ctx' = IF kind = "file" THEN <<DummyContext(inp.data)>>
              ELSE IF kind = "matrix"
                   THEN <<[type |-> "virtualfile", data |-> "matrix"]>>
              ELSE IF kind = "vectors"
                   THEN <<[type |-> "virtualfile", data |-> "vectors"]>>
              ELSE <<>>
    /\ pc' = "ctx_enter"
    /\ UNCHANGED <<prog, raised, returned, hostVars, genVars, loadVars, sessVars, inp,
                   stack, fnames, idx, tmpfile, outfile, table, log>>

\* `with file_context as fname`
ContourCtxEnter ==
    /\ prog = "contour" /\ pc = "ctx_enter"
    /\ IF ctx = <<>>
       THEN /\ raised' = <<Exc("UnboundLocalError", "file_context")>>
            /\ pc' = "session_exit"
            /\ UNCHANGED <<stack, fnames, registry>>
       ELSE IF ctx[1].type = "dummy"
       THEN /\ stack' = <<ctx[1]>>
            /\ fnames' = <<ctx[1].data>>
            /\ pc' = "call"
            /\ UNCHANGED <<raised, registry>>
       ELSE \E ok \in BOOLEAN :
              IF ok
              THEN /\ registry' = registry \cup {VirtualFileName}
                   /\ stack' = <<[ctx[1] EXCEPT !.data = VirtualFileName]>>
                   /\ fnames' = <<VirtualFileName>>
                   /\ pc' = "call"
                   /\ UNCHANGED raised
              ELSE /\ raised' = <<Exc("GMTCLibError", "virtualfile")>>
                   /\ pc' = "session_exit"
                   /\ UNCHANGED <<stack, fnames, registry>>
    /\ UNCHANGED <<prog, returned, hostVars, genVars, loadVars, session, opens, closes,
                   calls, inp, ctx, idx, tmpfile, outfile, table, log>>

ContourCall ==
    /\ prog = "contour" /\ pc = "call"
    /\ \E ok \in BOOLEAN :
         CallModule("contour", Join(<<fnames[1], build_arg_string(inp.kwargs)>>, " "), ok)
    /\ pc' = "ctx_exit"
    /\ UNCHANGED <<prog, returned, hostVars, genVars, loadVars, session, opens,
                   closes, registry, callVars>>

\* contour entering and leaving file_context by hand instead of by a with
\* block: an exception in the body skips the release of the binding
ContourCtxExitNoWith ==
    /\ prog = "contour" /\ pc = "ctx_exit"
    /\ registry' = IF Last(stack).type = "virtualfile" /\ raised = <<>>
                   THEN registry \ {Last(stack).data} ELSE registry
    /\ stack' = Front(stack)
    /\ pc' = "session_exit"
    /\ UNCHANGED <<prog, raised, returned, hostVars, genVars, loadVars, session, opens,
                   closes, calls, inp, ctx, fnames, idx, tmpfile, outfile, table, log>>

\* file_context.__exit__: a virtual file is closed, a dummy context does nothing.
ContourCtxExit ==
    /\ prog = "contour" /\ pc = "ctx_exit"
    /\ registry' = IF Last(stack).type = "virtualfile"
                   THEN registry \ {Last(stack).data} ELSE registry
    /\ stack' = Front(stack)
    /\ pc' = "session_exit"
    /\ UNCHANGED <<prog, raised, returned, hostVars, genVars, loadVars, session, opens,
                   closes, calls, inp, ctx, fnames, idx, tmpfile, outfile, table, log>>

ContourSessionExit ==
    /\ prog = "contour" /\ pc = "session_exit"
    /\ SessionExit
    /\ returned' = IF raised = <<>> THEN None ELSE returned
    /\ UNCHANGED <<prog, raised, hostVars, genVars, loadVars, opens, registry,
                   calls, callVars>>

ContourNext ==
    \/ ContourPre
    \/ ContourSessionEnter
    \/ ContourBuild
    \/ ContourCtxEnter
    \/ ContourCall
    \/ ContourCtxExit
    \/ ContourSessionExit

(***************************************************************************)
(* Initial states                                                          *)
(***************************************************************************)
\* The paths whose presence on disk the locator can observe on a platform: the
\* platform's library file names under the override directory (libgmt.so where
\* the platform has none) and the path the toolchain reports.
DiskPaths(os_name) ==
    LET r == clib_names(os_name)
        names == IF r.raises THEN {"libgmt.so"} ELSE Range(r.val)
    IN {PathJoin(LibDir, n) : n \in names} \cup {ToolchainPath}

InitFrames ==
    /\ raised = <<>> /\ returned = NoValue
    /\ gpc = "start" /\ gi = 1 /\ libnames = <<>> /\ libpath = ""
    /\ yields = <<>> /\ probes = {} /\ tcOutcome = "none" /\ findlib = {}
    /\ lib_fullnames = <<>> /\ error = ErrTrue /\ libgmt = NoLib /\ checked = NotChecked
    /\ session = "unopened" /\ opens = 0 /\ closes = 0 /\ registry = {}
    /\ calls = <<>>
    /\ ctx = <<>> /\ stack = <<>> /\ fnames = <<>> /\ idx = 1
    /\ tmpfile = "" /\ table = NoValue /\ log = <<>>

InitHost ==
    /\ platform = "linux" /\ env = <<>> /\ files = {}

InitLoad ==
    /\ prog = "load_libgmt" /\ pc = "for_next"
    /\ platform \in Platforms
    /\ env \in Environments
    /\ files \in SUBSET DiskPaths(platform)
    /\ inp = <<>> /\ outfile = None
    /\ InitFrames

\* The arguments of the calls.
MaxTracks == 2

TrackValues ==
    { [kind |-> "file", data |-> "trackA.xyz"],
      [kind |-> "matrix", data |-> "DataFrame"],
      [kind |-> "grid", data |-> "DataArray"] }

TrackLists == UNION { [1..n -> TrackValues] : n \in 1..MaxTracks }

TagLines ==
    { <<"-Dxyz", "-Etsv", "-I1/1">>,
      <<"-Etsv", "-Dxyz">>,
      <<"-Dxyz">>,
      <<"-I1/1">> }

\* A str or a DataFrame given as `tracks` without a list around it.
BareTracks ==
    { [form |-> "str", tracks |-> [kind |-> "file", data |-> "a.xyz"]],
      [form |-> "DataFrame",
       tracks |-> [kind |-> "matrix", data |-> "DataFrame", columns |-> <<"lon", "lat">>]] }

CrossKwargs == [tag |-> Str("mytag")]

\* outfile: left unset, or a path
Outfiles == {None, Str("crossovers.txt")}

\* The arguments of x2sys_cross together with what its tag lookup finds:
\* X2SYS_HOME set or not, and the last line of the tag file.
CrossArguments ==
    { [form |-> "list", tracks |-> t, tagline |-> l, x2sys_home |-> TRUE,
       kwargs |-> CrossKwargs, outfile |-> o] :
          t \in TrackLists, l \in TagLines, o \in Outfiles }
    \cup
    { [form |-> "list", tracks |-> t, tagline |-> <<"-Dxyz", "-Etsv", "-I1/1">>,
       x2sys_home |-> FALSE, kwargs |-> CrossKwargs, outfile |-> o] :
          t \in TrackLists, o \in Outfiles }
    \cup
    { [form |-> b.form, tracks |-> b.tracks, tagline |-> <<"-Dxyz", "-Etsv", "-I1/1">>,
       x2sys_home |-> TRUE, kwargs |-> CrossKwargs, outfile |-> o] :
          b \in BareTracks, o \in Outfiles }

\* Keyword arguments of x2sys_init: none, long names, a flag letter given
\* directly, a list for a converted argument.
InitKwargs ==
    { <<>>,
      [spacing |-> List(<<"5m">>)],
      [spacing |-> List(<<"5m">>), discontinuity |-> Str("g")],
      [discontinuity |-> Str("g"), spacing |-> List(<<"1", "2">>), units |-> Str("de")],
      [region |-> List(<<"0", "9", "0", "5">>), fmtfile |-> Str("xyz"), E |-> Str("tsv")],
      [V |-> Str("q"), suffix |-> Str("tsv"), distcalc |-> Str("e")] }

InitX2sysInit ==
    /\ prog = "x2sys_init" /\ pc = "session_enter"
    /\ inp \in { [tag |-> "mytag", kwargs |-> k] :
                 k \in InitKwargs }
    /\ outfile = None
    /\ InitHost /\ InitFrames

InitX2sysCross ==
    /\ prog = "x2sys_cross" /\ pc = "session_enter"
    /\ inp \in CrossArguments
    /\ outfile = inp.outfile
    /\ InitHost /\ InitFrames

InitContour ==
    /\ prog = "contour" /\ pc = "pre"
    /\ inp \in { [kind |-> k, data |-> "table.txt", z |-> z, kwargs |-> <<>>] :
                 k \in {"file", "matrix", "vectors", "grid"},
                 z \in {None, [kind |-> "array"]} }
    /\ outfile = None
    /\ InitHost /\ InitFrames

Init == InitLoad \/ InitX2sysInit \/ InitX2sysCross \/ InitContour

Next == LoadNext \/ InitNext \/ CrossNext \/ ContourNext

Spec == Init /\ [][Next]_vars


(***************************************************************************)
(* Properties                                                              *)
(***************************************************************************)
Loading == prog = "load_libgmt"
Done == pc = "done"
Raises(kind) == raised # <<>> /\ Last(raised).kind = kind
YieldedFrom(src) == {i \in DOMAIN yields : yields[i].src = src}
Logged(event) == {i \in DOMAIN log : log[i][1] = event}

\* the four entry points a usable library exposes
EntryPoints ==
    {"GMT_Create_Session", "GMT_Get_Enum", "GMT_Call_Module", "GMT_Destroy_Session"}

\* C1: a candidate that loads but lacks a required entry point is discarded and
\* the search goes on: the failed verification never leaves load_libgmt as an
\* error of its own (the call either is still searching, returns a verified
\* library, or ends with the library-not-found error).
C1_FailedCheckContinues ==
    (Loading /\ libgmt # NoLib /\ ~(EntryPoints \subseteq libgmt.symbols))
        => (raised = <<>> \/ Raises("GMTCLibNotFoundError"))

\* C2: when load_libgmt ends and no candidate both loaded and verified, it ends
\* with GMTCLibNotFoundError naming every candidate attempted, in order, and the
\* error of the last failed attempt, and it returns no handle.
C2_NotFoundNamesAllAttempts ==
    (Loading /\ Done /\ libnames # <<>>
        /\ ~(libgmt # NoLib /\ EntryPoints \subseteq libgmt.symbols))
        => /\ returned = NoValue
           /\ Raises("GMTCLibNotFoundError")
           /\ Last(raised).info.names = [i \in DOMAIN yields |-> yields[i].path]
           /\ Last(raised).info.error.kind \in {"OSError", "GMTCLibError"}
           /\ Last(raised).info.error.info \in
                  {Last(yields).path, "GMT_Create_Session", "GMT_Get_Enum",
                   "GMT_Call_Module", "GMT_Destroy_Session"}

\* C3: the toolchain query is best-effort: when the command is missing, exits
\* with a failure status or reports a path that does not exist, no toolchain
\* candidate is yielded, the generator does not fail, and once it is exhausted
\* every bare platform file name has been yielded last.
C3_ToolchainBestEffort ==
    (Loading /\ tcOutcome \in {"notfound", "failed", "stale"})
        => /\ YieldedFrom("toolchain") = {}
           /\ ~Raises("CalledProcessError")
           /\ ~Raises("FileNotFoundError")
           /\ ~Raises("AssertionError")
           /\ gpc = "end" =>
                 /\ Len(yields) >= Len(libnames)
                 /\ SubSeq(yields, Len(yields) - Len(libnames) + 1, Len(yields))
                      = [i \in DOMAIN libnames |-> [path |-> libnames[i], src |-> "bare"]]

\* C4: override candidates come first and only for files that exist: every
\* candidate yielded from the override directory is an existing file of that
\* directory and precedes every candidate of the other blocks; when the
\* variable is set and some platform file name exists in the directory, the
\* first candidate yielded is the first such path; with the variable unset or
\* empty the override block yields nothing and probes nothing.
C4_OverrideFirst ==
    Loading =>
      LET dir == EnvGet(env, "GMT_LIBRARY_PATH", "")
          joined == [i \in DOMAIN libnames |-> PathJoin(dir, libnames[i])]
          existing == {i \in DOMAIN libnames : joined[i] \in files}
      IN
      /\ \A i \in DOMAIN yields :
           /\ yields[i].src = "override" =>
                /\ dir # ""
                /\ yields[i].path \in Range(joined) \cap files
                /\ \A j \in 1..(i - 1) : yields[j].src = "override"
           /\ (dir # "" /\ yields[i].path \in Range(joined)) => yields[i].path \in files
      /\ (dir # "" /\ existing # {} /\ gpc \notin {"start", "override"}) =>
           /\ yields # <<>>
           /\ yields[1].src = "override"
           /\ \E i \in existing :
                /\ yields[1].path = joined[i]
                /\ \A j \in existing : i <= j
      /\ dir = "" => (YieldedFrom("override") = {} /\ probes \cap Range(joined) = {})

C4_Witness ==
    /\ Loading /\ Len(yields) >= 2
    /\ yields[1].src = "override" /\ yields[2].src = "toolchain"
    /\ \E p \in probes : p \notin files

\* the platform families clib_names knows
KnownFamily(os_name) ==
    \/ StartsWith(os_name, "linux")
    \/ os_name = "darwin"
    \/ os_name = "win32"
    \/ StartsWith(os_name, "freebsd")

\* C5: on a platform of no known family load_libgmt fails with GMTOSError
\* before any candidate is yielded or loaded and before any I/O: nothing is
\* probed on disk, the toolchain command is not run, find_library is not
\* consulted, no load is attempted and nothing is returned.
C5_UnsupportedPlatformFailsFast ==
    (Loading /\ ~KnownFamily(platform)) =>
        /\ probes = {} /\ tcOutcome = "none" /\ findlib = {}
        /\ yields = <<>> /\ lib_fullnames = <<>> /\ libgmt = NoLib
        /\ returned = NoValue
        /\ pc \in {"for_next", "done"}
        /\ pc = "for_next" => gpc = "start"
        /\ Done => raised = <<Exc("GMTOSError", platform)>>

C5_Witness ==
    /\ Loading /\ Done /\ platform = "darwin20" /\ Raises("GMTOSError")
    /\ EnvGet(env, "GMT_LIBRARY_PATH", "") # "" /\ files # {}

SessionProg == prog \in {"x2sys_init", "x2sys_cross", "contour"}

\* C6: in x2sys_init, x2sys_cross and contour a session that was opened is
\* closed exactly once, when the function is left (normally or by an
\* exception) and not before, and every call_module is made on the open
\* session.
C6_SessionClosedOnce ==
    SessionProg =>
        /\ opens <= 1 /\ closes <= opens
        /\ Done => closes = opens
        /\ closes = 1 => Done
        /\ (session = "open") <=> (opens = 1 /\ closes = 0)
        /\ (session = "closed") <=> (closes = 1)
        /\ \A i \in DOMAIN calls : calls[i].session = "open"
        /\ calls # <<>> => opens = 1

C6_Witness ==
    /\ prog = "x2sys_cross" /\ Done /\ closes = 1
    /\ Raises("FileNotFoundError") /\ calls # <<>>

\* C7: once x2sys_cross has left the block of its track contexts (and so when
\* it has returned or raised), no temporary track file that was written is
\* left on disk.
C7_NoTrackFileLeft ==
    (prog = "x2sys_cross" /\ pc \in {"read", "tmpfile_exit", "session_exit", "done"})
        => \A i \in Logged("write") : log[i][2] \notin files

C7_Witness ==
    /\ prog = "x2sys_cross" /\ Done
    /\ Logged("write") # {} /\ calls = <<>>
    /\ raised # <<>> /\ raised[1] = Exc("OSError", "to_csv")
    /\ \E i \in Logged("write"), j \in Logged("remove") :
         i < j /\ log[i][2] = log[j][2] /\ i + 1 < j

\* str.split(" "): the words of an argument string
RECURSIVE SplitWords(_, _)
SplitWords(str, word) ==
    IF str = "" THEN <<word>>
    ELSE IF SubSeq(str, 1, 1) = " "
    THEN <<word>> \o SplitWords(SubSeq(str, 2, Len(str)), "")
    ELSE SplitWords(SubSeq(str, 2, Len(str)), word \o SubSeq(str, 1, 1))

Words(str) == SplitWords(str, "")

\* C8: in contour a virtual file is registered only while the session is open;
\* for matrix or vectors input the module is called with the binding
\* registered and named first in the arguments; the registry is empty right
\* after the session is opened, and again before the session is closed, whether
\* the module call returned or raised.
C8_BindingInsideSession ==
    prog = "contour" =>
        /\ registry # {} => session = "open"
        /\ pc \in {"pre", "session_enter", "build", "session_exit", "done"} => registry = {}
        /\ \A i \in DOMAIN calls :
             data_kind(inp) \in {"matrix", "vectors"} =>
                 /\ calls[i].registry # {}
                 /\ Words(calls[i].args)[1] \in calls[i].registry
                 /\ calls[i].session = "open"

C8_Witness ==
    /\ prog = "contour" /\ Done /\ data_kind(inp) = "vectors"
    /\ calls # <<>> /\ Raises("GMTCLibError") /\ closes = 1

\* C9: check_libgmt accepts a loaded library exactly when it exposes all four
\* entry points: with any of them missing it raises GMTCLibError (naming a
\* missing entry point) and the library is neither accepted by the loop nor
\* returned; with all four present it raises nothing and the loop goes on to
\* its break with the library unchanged.
C9_CheckLibgmt ==
    (Loading /\ libgmt # NoLib) =>
        /\ checked.called
        /\ IF EntryPoints \subseteq libgmt.symbols
           THEN /\ checked.result = <<>>
                /\ raised = <<>>
                /\ error = ErrFalse
                /\ Done => returned = libgmt
           ELSE /\ Len(checked.result) = 1
                /\ checked.result[1].kind = "GMTCLibError"
                /\ checked.result[1].info \in EntryPoints \ libgmt.symbols
                /\ error # ErrFalse
                /\ returned = NoValue

C9_Witness ==
    /\ Loading /\ Done
    /\ libgmt.symbols = EntryPoints \ {"GMT_Get_Enum"}
    /\ checked.result = <<Exc("GMTCLibError", "GMT_Get_Enum")>>

\* C10: when call_module fails in x2sys_cross, an exception whose chain holds
\* the module's error reaches the caller, the output is never read and no table
\* is returned; the output is read only after call_module has returned and
\* while the temporary output file is still on disk.
C10_FailedCallNotRead ==
    prog = "x2sys_cross" =>
        /\ Logged("call_failed") # {} =>
             /\ Logged("read") = {}
             /\ table = NoValue /\ returned = NoValue
             /\ raised # <<>>
             /\ Exc("GMTCLibError", "x2sys_cross") \in Range(raised)
        /\ \A i \in Logged("read") :
             /\ \E j \in Logged("call_ok") : j < i
             /\ log[i][2] = TmpOutName
             /\ \A j \in 1..i : log[j] # <<"remove", TmpOutName>>
        /\ (Logged("read") # {} /\ pc = "tmpfile_exit") => TmpOutName \in files

C10_Witness ==
    /\ prog = "x2sys_cross" /\ Done
    /\ Logged("call_failed") # {} /\ Logged("write") # {}
    /\ Raises("GMTCLibError") /\ outfile = Str(TmpOutName)

\* the names of the temporary track files written so far
TrackFilesWritten == {log[i][2] : i \in Logged("write")}

\* C11: an input of kind "file" gets no virtual file and no temporary file: in
\* contour the first argument is the given path and nothing is registered or
\* written; in x2sys_cross every track of kind "file" appears in the arguments
\* at its own position exactly as given, at most one temporary file is written
\* per table track, and with file tracks only no track file is ever written or
\* removed and nothing is registered.
C11_FilePathVerbatim ==
    /\ (prog = "contour" /\ data_kind(inp) = "file") =>
          /\ registry = {} /\ files = {} /\ log = <<>>
          /\ \A i \in DOMAIN calls :
               Words(calls[i].args)[1] = inp.data /\ calls[i].registry = {}
    /\ prog = "x2sys_cross" =>
          LET tracks == IterTracks(inp)
              tables == {i \in DOMAIN tracks : data_kind(tracks[i]) = "matrix"}
          IN
          /\ registry = {}
          /\ \A c \in DOMAIN calls : \A i \in DOMAIN tracks :
               data_kind(tracks[i]) = "file" => Words(calls[c].args)[i] = tracks[i].data
          /\ Cardinality(Logged("write")) <= Cardinality(tables)
          /\ \A i \in DOMAIN tracks :
               data_kind(tracks[i]) = "file" => tracks[i].data \notin TrackFilesWritten
          /\ tables = {} =>
               /\ Logged("write") = {}
               /\ \A i \in Logged("remove") : log[i][2] = TmpOutName
               /\ files \subseteq {TmpOutName} \cup (IF outfile = None THEN {} ELSE {outfile.val})

C11_Witness ==
    /\ prog = "x2sys_cross" /\ Done /\ raised = <<>>
    /\ inp.form = "list" /\ Len(inp.tracks) = 2
    /\ data_kind(inp.tracks[1]) = "matrix" /\ data_kind(inp.tracks[2]) = "file"
    /\ calls # <<>> /\ Words(calls[1].args)[2] = inp.tracks[2].data
    /\ Cardinality(Logged("write")) = 1

\* the positions of the tracks whose kind is neither "file" nor "matrix"
Unrecognized == {i \in DOMAIN IterTracks(inp) :
                    data_kind(IterTracks(inp)[i]) \notin {"file", "matrix"}}
FirstUnrecognized == CHOOSE i \in Unrecognized : \A j \in Unrecognized : i <= j
TablesBefore(n) == {i \in 1..(n - 1) : data_kind(IterTracks(inp)[i]) = "matrix"}

C13_ReturnFollowsOutfile ==
    prog = "x2sys_cross" =>
        LET tracks == IterTracks(inp)
            n      == Len(tracks)
            given  == inp.outfile # None
        IN
        /\ \A c \in DOMAIN calls :
             LET words == Words(calls[c].args) IN
             /\ Len(words) = n + 2
             /\ \A i \in 1..n :
                  IF data_kind(tracks[i]) = "file"
                  THEN words[i] = tracks[i].data
                  ELSE /\ StartsWith(words[i], "track-")
                       /\ \A j \in 1..n : j # i /\ data_kind(tracks[j]) = "file"
                                            => words[i] # tracks[j].data
             /\ words[n + 1] = "-Tmytag"
             /\ words[n + 2] = "->" \o (IF given THEN inp.outfile.val ELSE TmpOutName)
        /\ (Done /\ raised = <<>>) =>
             /\ Len(calls) = 1
             /\ IF given
                THEN /\ returned = None
                     /\ Logged("read") = {}
                     /\ inp.outfile.val \in files
                     /\ \A i \in Logged("call_ok") : log[i][2] = inp.outfile.val
                ELSE /\ returned = [kind |-> "DataFrame"]
                     /\ \E i \in Logged("read") : log[i][2] = TmpOutName
                     /\ \A i \in Logged("call_ok") : log[i][2] = TmpOutName

C13_Witness ==
    /\ prog = "x2sys_cross" /\ Done /\ raised = <<>>
    /\ inp.form = "list" /\ Len(inp.tracks) = 2
    /\ data_kind(inp.tracks[1]) = "file" /\ data_kind(inp.tracks[2]) = "matrix"
    /\ inp.outfile = Str("crossovers.txt") /\ returned = None
    /\ Len(calls) = 1

\* C14: for a single track given without a list around it (a file name, or
\* one DataFrame) every module call names exactly one track, followed by the
\* options and the redirection: the file name as given, or the one temporary
\* file written from the table.
C14_SingleTrackUnwrapped ==
    (prog = "x2sys_cross" /\ inp.form # "list") =>
        \A c \in DOMAIN calls :
             LET words == Words(calls[c].args) IN
             /\ Len(words) = 3
             /\ IF inp.form = "str"
                THEN words[1] = inp.tracks.data
                ELSE /\ StartsWith(words[1], "track-")
                     /\ Cardinality(Logged("write")) = 1

\* C15: once clib_names has been called, the library names are those of the
\* platform's family (prefix "linux": libgmt.so; exactly "darwin":
\* libgmt.dylib; exactly "win32": gmt.dll, gmt_w64.dll, gmt_w32.dll; prefix
\* "freebsd": libgmt.so), a non-empty list, and GMTOSError is not raised; for
\* any other identifier no list is ever returned and the search ends with
\* GMTOSError.
C15_ClibNamesPerFamily ==
    Loading =>
        IF KnownFamily(platform)
        THEN /\ ~Raises("GMTOSError")
             /\ gpc # "start" =>
                  /\ libnames # <<>>
                  /\ StartsWith(platform, "linux") => libnames = <<"libgmt.so">>
                  /\ platform = "darwin" => libnames = <<"libgmt.dylib">>
                  /\ platform = "win32" =>
                        libnames = <<"gmt.dll", "gmt_w64.dll", "gmt_w32.dll">>
                  /\ StartsWith(platform, "freebsd") => libnames = <<"libgmt.so">>
        ELSE /\ libnames = <<>>
             /\ gpc # "start" => Done /\ Raises("GMTOSError")

C15_Witness ==
    /\ Loading /\ platform = "linux2" /\ libnames = <<"libgmt.so">>
    /\ gpc # "start" /\ yields # <<>>

\* the flag letter of a keyword of x2sys_init (a flag letter stands for itself)
FlagOf(keyword) ==
    CASE keyword = "fmtfile"       -> "D"
      [] keyword = "suffix"        -> "E"
      [] keyword = "force"         -> "F"
      [] keyword = "discontinuity" -> "G"
      [] keyword = "spacing"       -> "I"
      [] keyword = "units"         -> "N"
      [] keyword = "region"        -> "R"
      [] keyword = "verbose"       -> "V"
      [] keyword = "gap"           -> "W"
      [] keyword = "distcalc"      -> "j"
      [] OTHER                     -> keyword

\* the text of a keyword's value: a list is written with "/" between its items
ValueText(value) == IF value.kind = "list" THEN Join(value.val, "/") ELSE value.val

\* C16: x2sys_init calls the module x2sys_init exactly once (at most once at
\* any time, once when it ends after opening its session); the argument string
\* starts with the tag and holds, for every keyword supplied, its flag letter
\* followed by its value, and nothing else; for tag="mytag", spacing=["5m"],
\* discontinuity="g" it holds mytag, -I5m and -Gg.
C16_InitArgumentString ==
    prog = "x2sys_init" =>
        /\ Len(calls) <= 1
        /\ (Done /\ opens = 1) => Len(calls) = 1
        /\ \A c \in DOMAIN calls :
             LET words   == Words(calls[c].args)
                 options == {words[i] : i \in 2..Len(words)} \ {""}
             IN
             /\ calls[c].module = "x2sys_init"
             /\ calls[c].session = "open"
             /\ words[1] = inp.tag
             /\ options = {"-" \o FlagOf(k) \o ValueText(inp.kwargs[k]) : k \in DOMAIN inp.kwargs}
             /\ inp.kwargs = [spacing |-> List(<<"5m">>), discontinuity |-> Str("g")]
                  => {"mytag", "-I5m", "-Gg"} \subseteq Range(words)

C16_Witness ==
    /\ prog = "x2sys_init" /\ Done /\ raised = <<>>
    /\ inp.kwargs = [spacing |-> List(<<"5m">>), discontinuity |-> Str("g")]
    /\ Len(calls) = 1 /\ calls[1].args = "mytag -Gg -I5m"

\* C17: the candidates are generated lazily.  Once a candidate has loaded and
\* verified, it is the last candidate generated and the last one attempted:
\* no later candidate is yielded or loaded.  If it came from the override
\* directory, the toolchain command has not been run and find_library has not
\* been consulted (and find_library neither if it came from the toolchain);
\* load_libgmt then returns that library.
C17_LazyCandidates ==
    (Loading /\ error = ErrFalse) =>
        /\ yields # <<>>
        /\ Len(yields) = Len(lib_fullnames)
        /\ Last(yields).path = Last(lib_fullnames)
        /\ libgmt.name = Last(yields).path
        /\ checked = [called |-> TRUE, result |-> <<>>]
        /\ Last(yields).src = "override" => tcOutcome = "none" /\ findlib = {}
        /\ Last(yields).src = "toolchain" => findlib = {}
        /\ pc \in {"after_loop", "done"}
        /\ Done => returned = libgmt /\ raised = <<>>

C17_Witness ==
    /\ Loading /\ Done /\ error = ErrFalse
    /\ Len(yields) = 2 /\ yields[1].src = "override" /\ yields[2].src = "override"
    /\ returned = libgmt /\ EnvGet(env, "GMT_LIBRARY_PATH", "") # ""

\* C18: contour ends with GMTInvalidInput, without a module call, for every
\* input whose kind is not file, matrix or vectors (a grid), once its session
\* is open.
C18_UnrecognizedKindInvalidInput ==
    (prog = "contour" /\ data_kind(inp) \notin {"file", "matrix", "vectors"}
       /\ Done /\ opens = 1)
        => Raises("GMTInvalidInput") /\ calls = <<>>

\* C19: contour given vectors without z raises GMTInvalidInput before any
\* session is opened: no session is ever created or closed, no virtual file
\* is bound, no context is entered and no module is called; the call ends at
\* its first step with that error.
C19_MissingZBeforeSession ==
    (prog = "contour" /\ data_kind(inp) = "vectors" /\ inp.z = None) =>
        /\ opens = 0 /\ closes = 0 /\ session # "open"
        /\ registry = {} /\ stack = <<>> /\ ctx = <<>>
        /\ calls = <<>>
        /\ pc \in {"pre", "done"}
        /\ Done => Len(raised) = 1 /\ Raises("GMTInvalidInput")

C19_Witness ==
    /\ prog = "contour" /\ data_kind(inp) = "vectors" /\ inp.z = None
    /\ Done /\ Raises("GMTInvalidInput") /\ opens = 0

\* C20: the temporary track files that exist at the same time during one
\* x2sys_cross call have pairwise distinct names; no track file is written
\* over another, and every one written is removed exactly once.
C20_TrackFilesDistinct ==
    prog = "x2sys_cross" =>
        /\ \A i, j \in DOMAIN stack :
             (i # j /\ stack[i].type = "tempfile" /\ stack[j].type = "tempfile")
                => stack[i].data # stack[j].data
        /\ \A i, j \in Logged("write") : i # j => log[i][2] # log[j][2]
        /\ Done => \A w \in Logged("write") :
                      Cardinality({r \in Logged("remove") : log[r][2] = log[w][2]}) = 1

\* the values of the items of the tag line that start with an option letter
OptionValues(option) ==
    {SubSeq(inp.tagline[k], 3, Len(inp.tagline[k])) :
        k \in {j \in DOMAIN inp.tagline : StartsWith(inp.tagline[j], option)}}

\* the suffix the tag line names: the value of -E, without one the value of -D
NamedSuffixes == IF OptionValues("-E") # {} THEN OptionValues("-E") ELSE OptionValues("-D")

EndsWith(str, tail) ==
    Len(str) >= Len(tail) /\ SubSeq(str, Len(str) - Len(tail) + 1, Len(str)) = tail

\* every temporary track file prepared or written carries the suffix the tag
\* line names
SuffixesFromTag ==
    /\ \A i \in DOMAIN ctx :
         ctx[i].type = "tempfile" => ctx[i].suffix \in NamedSuffixes
    /\ \A i \in Logged("write") :
         \E x \in NamedSuffixes : EndsWith(log[i][2], "." \o x)

\* C21 as stated: for every DataFrame track the suffix of the temporary file
\* is the value of -E on the last line of the tag file, without -E the value
\* of -D, in whatever order the options stand; and a suffix is always
\* determined: the name `suffix` is never found unbound.
C21_SuffixAlwaysFromTag ==
    prog = "x2sys_cross" =>
        /\ SuffixesFromTag
        /\ ~Raises("UnboundLocalError")

\* C21 amended: when the last line of the tag file has a -E or a -D item, every
\* temporary track file gets the value of -E, without -E the value of -D, as
\* its suffix, in whatever order the options stand, and the suffix lookup
\* never fails for want of a suffix.  When the line has neither, no track
\* context is prepared for a table, no temporary track file is written, and a
\* call that ends with tables among its tracks has made no module call and
\* has raised an error.
C21_SuffixFromTagWhenNamed ==
    prog = "x2sys_cross" =>
        /\ SuffixesFromTag
        /\ IF NamedSuffixes # {}
           THEN ~Raises("UnboundLocalError")
           ELSE (opens = 1 /\ \E i \in DOMAIN IterTracks(inp) :
                                  data_kind(IterTracks(inp)[i]) = "matrix")
                    => /\ calls = <<>>
                       /\ Done => raised # <<>>
                       /\ (Done /\ inp.x2sys_home /\ Unrecognized = {})
                             => Raises("UnboundLocalError")

C21_Witness ==
    /\ prog = "x2sys_cross" /\ Done /\ raised = <<>>
    /\ inp.tagline = <<"-Etsv", "-Dxyz">>
    /\ \E i \in Logged("write") : EndsWith(log[i][2], ".tsv")
    /\ calls # <<>>

=============================================================================
